---- MODULE Spec2Model ----
(***************************************************************************)
(* A model of unity_mcp_client/client.py: the UnityMCP command client.     *)
(* Python strings are sequences of one-character strings, so that          *)
(* endswith, slicing, lower() and the two regular expressions of           *)
(* _format_vector3 are computed and not assumed.                           *)
(***************************************************************************)
EXTENDS Integers, Sequences, FiniteSets, TLC

(***************************************************************************)
(* Python values that reach the client as arguments.  Every value has the  *)
(* same three fields: t is the Python type, s the characters of a str,     *)
(* items the elements of a list (or the single number of an int).          *)
(***************************************************************************)
Str(chars) == [t |-> "str", s |-> chars, items |-> <<>>]
List(elems) == [t |-> "list", s |-> <<>>, items |-> elems]
Num(n) == [t |-> "int", s |-> <<>>, items |-> <<n>>]
NoneValue == [t |-> "None", s |-> <<>>, items |-> <<>>]

\* bool(value) for an argument: None and the empty string are falsy.
ArgTruthy(v) == ~(v.t = "None" \/ (v.t = "str" /\ v.s = <<>>))

(***************************************************************************)
(* String literals of the source.                                          *)
(***************************************************************************)
MeshSuffix == <<"M", "e", "s", "h">>
MeshFilterName == <<"M", "e", "s", "h", "F", "i", "l", "t", "e", "r">>
MeshRendererName == <<"M", "e", "s", "h", "R", "e", "n", "d", "e", "r", "e", "r">>
MeshPropertyName == <<"m", "e", "s", "h">>
MeshAssetPrefix == <<"U", "n", "i", "t", "y", "E", "n", "g", "i", "n", "e", ".", "M", "e", "s", "h", ",", " ", "U", "n", "i", "t", "y", "E", "n", "g", "i", "n", "e", ".", "C", "o", "r", "e", "M", "o", "d", "u", "l", "e", ":", "U", "n", "i", "t", "y", "E", "n", "g", "i", "n", "e", ".">>
TransformName == <<"T", "r", "a", "n", "s", "f", "o", "r", "m">>
ScaleName == <<"s", "c", "a", "l", "e">>
LocalScaleName == <<"l", "o", "c", "a", "l", "S", "c", "a", "l", "e">>
Vector3PropertyNames == {<<"p", "o", "s", "i", "t", "i", "o", "n">>, <<"l", "o", "c", "a", "l", "s", "c", "a", "l", "e">>, <<"r", "o", "t", "a", "t", "i", "o", "n">>, <<"e", "u", "l", "e", "r", "A", "n", "g", "l", "e", "s">>}
FailurePrefix == "Request to MCP server failed: "

(***************************************************************************)
(* str methods.                                                            *)
(***************************************************************************)
UpperLetters == <<"A", "B", "C", "D", "E", "F", "G", "H", "I", "J", "K", "L", "M", "N", "O", "P", "Q", "R", "S", "T", "U", "V", "W", "X", "Y", "Z">>
LowerLetters == <<"a", "b", "c", "d", "e", "f", "g", "h", "i", "j", "k", "l", "m", "n", "o", "p", "q", "r", "s", "t", "u", "v", "w", "x", "y", "z">>

LowerChar(c) ==
    IF \E i \in 1..Len(UpperLetters) : UpperLetters[i] = c
    THEN LowerLetters[CHOOSE i \in 1..Len(UpperLetters) : UpperLetters[i] = c]
    ELSE c

\* s.lower()
Lower(s) == [i \in 1..Len(s) |-> LowerChar(s[i])]

\* s.endswith(suffix)
EndsWith(s, suffix) ==
    /\ Len(s) >= Len(suffix)
    /\ SubSeq(s, Len(s) - Len(suffix) + 1, Len(s)) = suffix

\* s[:-4]
DropLast4(s) == SubSeq(s, 1, Len(s) - 4)

Digits == {"0", "1", "2", "3", "4", "5", "6", "7", "8", "9"}
DigitChars == <<"0", "1", "2", "3", "4", "5", "6", "7", "8", "9">>

\* str(n) for an int
RECURSIVE NatToChars(_)
NatToChars(n) ==
    IF n < 10 THEN <<DigitChars[n + 1]>>
    ELSE NatToChars(n \div 10) \o <<DigitChars[(n % 10) + 1]>>

IntToChars(n) == IF n < 0 THEN <<"-">> \o NatToChars(-n) ELSE NatToChars(n)

\* ", ".join(str(e) for e in elems)
RECURSIVE JoinInts(_)
JoinInts(elems) ==
    IF elems = <<>> THEN <<>>
    ELSE IF Len(elems) = 1 THEN IntToChars(elems[1])
    ELSE IntToChars(elems[1]) \o <<",", " ">> \o JoinInts(Tail(elems))

\* str(value)
StrOf(v) ==
    CASE v.t = "str" -> v.s
      [] v.t = "list" -> <<"[">> \o JoinInts(v.items) \o <<"]">>
      [] v.t = "int" -> IntToChars(v.items[1])
      [] OTHER -> <<"N", "o", "n", "e">>

(***************************************************************************)
(* The two regular expressions of _format_vector3.  The character classes  *)
(* that follow one another in both patterns are disjoint, so the greedy    *)
(* scan below finds a match exactly when the backtracking matcher does.    *)
(***************************************************************************)
RECURSIVE SkipDigits(_, _)
\* \d* from position i: the position after the longest run of digits
SkipDigits(s, i) ==
    IF i <= Len(s) /\ s[i] \in Digits THEN SkipDigits(s, i + 1) ELSE i

\* c? from position i
SkipOpt(s, i, c) == IF i <= Len(s) /\ s[i] = c THEN i + 1 ELSE i

\* -?\d*\.?\d* from position i
LooseNumberEnd(s, i) ==
    SkipDigits(s, SkipOpt(s, SkipDigits(s, SkipOpt(s, i, "-")), "."))

\* a literal comma at position i: the position after it, 0 when there is none
CommaEnd(s, i) == IF i > 0 /\ i <= Len(s) /\ s[i] = "," THEN i + 1 ELSE 0

\* $ at position i: the end of the string, or just before a final newline
AtDollar(s, i) == i = Len(s) + 1 \/ (i = Len(s) /\ s[i] = "\n")

\* re.match(r'^-?\d*\.?\d*,-?\d*\.?\d*,-?\d*\.?\d*$', s)
MatchesVector3Pattern(s) ==
    LET c1 == CommaEnd(s, LooseNumberEnd(s, 1))
        c2 == IF c1 = 0 THEN 0 ELSE CommaEnd(s, LooseNumberEnd(s, c1))
    IN  c2 > 0 /\ AtDollar(s, LooseNumberEnd(s, c2))

\* -?\d+\.?\d* at position i: the position after the match, 0 when none
NumberEnd(s, i) ==
    LET j == SkipOpt(s, i, "-")
        k == SkipDigits(s, j)
    IN  IF k > j THEN SkipDigits(s, SkipOpt(s, k, ".")) ELSE 0

RECURSIVE FindAllFrom(_, _)
FindAllFrom(s, i) ==
    IF i > Len(s) THEN <<>>
    ELSE LET e == NumberEnd(s, i)
         IN  IF e > 0 THEN <<SubSeq(s, i, e - 1)>> \o FindAllFrom(s, e)
             ELSE FindAllFrom(s, i + 1)

\* re.findall(r'-?\d+\.?\d*', s)
FindAllNumbers(s) == FindAllFrom(s, 1)

\* f"{a},{b},{c}"
Join3(a, b, c) == a \o <<",">> \o b \o <<",">> \o c

\* UnityMCP._format_vector3 on a str: the characters returned
FormatVector3Str(s) ==
    IF MatchesVector3Pattern(s) THEN s
    ELSE LET matches == FindAllNumbers(s)
         IN  IF Len(matches) >= 3
             THEN Join3(matches[1], matches[2], matches[3])
             ELSE s

\* UnityMCP._format_vector3: always a str
FormatVector3(value) ==
    IF value.t = "str" THEN Str(FormatVector3Str(value.s))
    ELSE IF value.t = "list" /\ Len(value.items) >= 3
    THEN Str(Join3(IntToChars(value.items[1]), IntToChars(value.items[2]),
                   IntToChars(value.items[3])))
    ELSE Str(StrOf(value))

(***************************************************************************)
(* Command envelopes, one builder per public method.  Arguments are Python *)
(* values (Str, List, Num, NoneValue).                                     *)
(***************************************************************************)
CreateGameObjectPayload(object_name, parent_name) ==
    IF ArgTruthy(parent_name)
    THEN [command |-> "create_gameobject",
          parameters |-> [objectName |-> object_name, parentName |-> parent_name]]
    ELSE [command |-> "create_gameobject",
          parameters |-> [objectName |-> object_name]]

\* the three methods that send an empty parameters mapping
NoParametersPayload(command) ==
    [command |-> command, parameters |-> [none \in {} |-> NoneValue]]

AddComponentPayload(gameobject_name, component_type_name) ==
    [command |-> "add_component",
     parameters |-> [gameObjectName |-> gameobject_name,
                     componentTypeName |-> component_type_name]]

CreateScriptAssetPayload(script_name, script_content, folder_path) ==
    IF ArgTruthy(folder_path)
    THEN [command |-> "create_script_asset",
          parameters |-> [scriptName |-> script_name,
                          scriptContent |-> script_content,
                          folderPath |-> folder_path]]
    ELSE [command |-> "create_script_asset",
          parameters |-> [scriptName |-> script_name,
                          scriptContent |-> script_content]]

\* AliasPropertyName comparing property_name itself with "scale"
AliasPropertyNameCaseSensitive(component_type, property_name) ==
    IF component_type = Str(TransformName) /\ property_name.s = ScaleName
    THEN Str(LocalScaleName)
    ELSE property_name

\* Map "scale" to "localScale" for the Transform component
AliasPropertyName(component_type, property_name) ==
    IF component_type = Str(TransformName) /\ Lower(property_name.s) = ScaleName
    THEN Str(LocalScaleName)
    ELSE property_name

\* formatted_value, from the property name as already rewritten
FormattedValue(component_type, property_name, value) ==
    IF /\ component_type = Str(TransformName)
       /\ Lower(property_name.s) \in Vector3PropertyNames
    THEN FormatVector3(value)
    ELSE IF value.t = "list" /\ Len(value.items) = 3
    THEN FormatVector3(value)
    ELSE value

SetComponentPropertyPayload(gameobject_name, component_type, property_name, value) ==
    LET name == AliasPropertyName(component_type, property_name)
    IN  [command |-> "set_component_property",
         parameters |-> [gameObjectName |-> gameobject_name,
                         componentType |-> component_type,
                         propertyName |-> name,
                         value |-> FormattedValue(component_type, name, value)]]

InstantiatePrefabPayload(prefab_path) ==
    [command |-> "instantiate_prefab", parameters |-> [prefabPath |-> prefab_path]]

FindGameObjectsByTagPayload(tag) ==
    [command |-> "find_gameobjects_by_tag", parameters |-> [tag |-> tag]]

GetAllComponentsPayload(gameobject_name) ==
    [command |-> "get_all_components",
     parameters |-> [gameObjectName |-> gameobject_name]]

RemoveComponentPayload(gameobject_name, component_name) ==
    [command |-> "remove_component",
     parameters |-> [gameObjectName |-> gameobject_name,
                     componentName |-> component_name]]

DeleteGameObjectPayload(gameobject_name) ==
    [command |-> "delete_gameobject", parameters |-> [name |-> gameobject_name]]

RECURSIVE ContainsAt(_, _, _)
ContainsAt(s, sub, i) ==
    IF i + Len(sub) - 1 > Len(s) THEN FALSE
    ELSE SubSeq(s, i, i + Len(sub) - 1) = sub \/ ContainsAt(s, sub, i + 1)

\* IsMeshType testing "Mesh" in component_type_name
IsMeshTypeAnywhere(component_type_name) ==
    ContainsAt(component_type_name.s, MeshSuffix, 1)

\* component_type_name.endswith("Mesh")
IsMeshType(component_type_name) == EndsWith(component_type_name.s, MeshSuffix)

\* mesh_type = component_type_name[:-4].lower()
MeshType(component_type_name) == Lower(DropLast4(component_type_name.s))

\* MeshAssetRef without lower()
MeshAssetRefNotLowered(component_type_name) ==
    Str(MeshAssetPrefix \o DropLast4(component_type_name.s))

\* f"UnityEngine.Mesh, UnityEngine.CoreModule:UnityEngine.{mesh_type}"
MeshAssetRef(component_type_name) ==
    Str(MeshAssetPrefix \o MeshType(component_type_name))

\* the third request of the mesh sequence
MeshPropertyPayload(gameobject_name, component_type_name) ==
    SetComponentPropertyPayload(gameobject_name, Str(MeshFilterName),
                                Str(MeshPropertyName),
                                MeshAssetRef(component_type_name))

(***************************************************************************)
(* The server's answer to one POST, as requests reports it: a transport    *)
(* exception, or a status and a body text.                                 *)
(***************************************************************************)
TransportFailures == {"ConnectionError", "Timeout"}
Statuses == {200, 201, 300, 404, 500}
Bodies ==
    {"", "<html>Bad Gateway</html>", "{}", "{\"success\": true}",
     "{\"success\": false, \"error\": \"GameObject not found\"}",
     "{\"success\": 0}", "{\"message\": \"done\"}", "[]", "null"}

Replies ==
    [transport : TransportFailures, status : {0}, body : {""}]
        \cup [transport : {"ok"}, status : Statuses, body : Bodies]

(***************************************************************************)
(* Decoded JSON: kind is the Python type; fields the (key, literal) pairs  *)
(* of a dict; lit the literal of any other value.                          *)
(***************************************************************************)
JsonDict(fields) == [kind |-> "dict", fields |-> fields, lit |-> ""]
JsonOther(kind, lit) == [kind |-> kind, fields |-> {}, lit |-> lit]
NoJson == [kind |-> "", fields |-> {}, lit |-> ""]

\* resp.json(): ok is FALSE when the text is not JSON (a ValueError)
JsonLoads(text) ==
    CASE text = "{}" -> [ok |-> TRUE, value |-> JsonDict({})]
      [] text = "{\"success\": true}" ->
            [ok |-> TRUE, value |-> JsonDict({<<"success", "true">>})]
      [] text = "{\"success\": false, \"error\": \"GameObject not found\"}" ->
            [ok |-> TRUE,
             value |-> JsonDict({<<"success", "false">>,
                                 <<"error", "\"GameObject not found\"">>})]
      [] text = "{\"success\": 0}" ->
            [ok |-> TRUE, value |-> JsonDict({<<"success", "0">>})]
      [] text = "{\"message\": \"done\"}" ->
            [ok |-> TRUE, value |-> JsonDict({<<"message", "\"done\"">>})]
      [] text = "[]" -> [ok |-> TRUE, value |-> JsonOther("list", "[]")]
      [] text = "null" -> [ok |-> TRUE, value |-> JsonOther("None", "null")]
      [] OTHER -> [ok |-> FALSE, value |-> NoJson]

\* resp.raise_for_status(): requests raises HTTPError for a 4xx or a 5xx status
RaisesForStatus(status) == 400 <= status /\ status < 600

\* str(e) of the exception _send_request catches
CauseText(reply) ==
    CASE reply.transport = "ConnectionError" -> "Connection refused"
      [] reply.transport = "Timeout" -> "Read timed out"
      [] reply.status = 404 -> "404 Client Error"
      [] reply.status = 500 -> "500 Server Error"
      [] OTHER -> "Expecting value: line 1 column 1 (char 0)"

NoException == [type |-> "", msg |-> <<>>]
NoResult == [outcome |-> "none", value |-> NoJson, exc |-> NoException]
Returned(value) == [outcome |-> "return", value |-> value, exc |-> NoException]
Raised(type, msg) ==
    [outcome |-> "raise", value |-> NoJson, exc |-> [type |-> type, msg |-> msg]]

\* raise RuntimeError(f"Request to MCP server failed: {e}")
RequestFailed(reply) == Raised("RuntimeError", <<FailurePrefix, CauseText(reply)>>)

\* DecodeBody as resp.json() alone
DecodeBodyAlways(reply) ==
    IF JsonLoads(reply.body).ok THEN Returned(JsonLoads(reply.body).value)
    ELSE RequestFailed(reply)

\* resp.json() if resp.text else {}
DecodeBody(reply) ==
    IF reply.body = "" THEN Returned(JsonDict({}))
    ELSE IF JsonLoads(reply.body).ok THEN Returned(JsonLoads(reply.body).value)
    ELSE RequestFailed(reply)

\* UnityMCP._send_request, given the server's answer to its POST
SendRequest(reply) ==
    IF reply.transport # "ok" THEN RequestFailed(reply)
    ELSE IF RaisesForStatus(reply.status) THEN RequestFailed(reply)
    ELSE DecodeBody(reply)

\* bool(x) of a JSON literal; "None" is what dict.get gives for a missing key
JsonTruthy(lit) == lit \notin {"None", "null", "false", "0", "\"\"", "[]", "{}"}

\* result.get('success') on a dict
GetSuccess(result) ==
    IF \E f \in result.fields : f[1] = "success"
    THEN (CHOOSE f \in result.fields : f[1] = "success")[2]
    ELSE "None"

\* AfterMeshStep with the request's failure caught and passed over
AfterMeshStepFailureIgnored(r) ==
    IF r.outcome = "raise" THEN NoResult
    ELSE IF r.value.kind # "dict"
    THEN Raised("AttributeError", <<r.value.kind, " object has no attribute 'get'">>)
    ELSE IF ~JsonTruthy(GetSuccess(r.value)) THEN r
    ELSE NoResult

\* if not result.get('success'): return result
\* (a value that is no dict has no get: AttributeError)
AfterMeshStep(r) ==
    IF r.outcome = "raise" THEN r
    ELSE IF r.value.kind # "dict"
    THEN Raised("AttributeError", <<r.value.kind, " object has no attribute 'get'">>)
    ELSE IF ~JsonTruthy(GetSuccess(r.value)) THEN r
    ELSE NoResult

(***************************************************************************)
(* The arguments the calls are made with.                                  *)
(***************************************************************************)
GameObjectNames == {Str(<<"C", "u", "b", "e">>), Str(<<"A">>)}
ParentNames == {NoneValue, Str(<<>>), Str(<<"R", "o", "o", "t">>)}
ComponentTypeNames ==
    {Str(<<"R", "i", "g", "i", "d", "b", "o", "d", "y">>), Str(<<"M", "e", "s", "h", "C", "o", "l", "l", "i", "d", "e", "r">>), Str(<<"c", "u", "b", "e", "m", "e", "s", "h">>),
     Str(<<"C", "u", "b", "e", "M", "e", "s", "h">>), Str(<<"S", "p", "h", "e", "r", "e", "M", "e", "s", "h">>), Str(<<"M", "e", "s", "h">>)}
ComponentTypes == {Str(<<"T", "r", "a", "n", "s", "f", "o", "r", "m">>), Str(<<"t", "r", "a", "n", "s", "f", "o", "r", "m">>), Str(<<"R", "i", "g", "i", "d", "b", "o", "d", "y">>)}
PropertyNames ==
    {Str(<<"s", "c", "a", "l", "e">>), Str(<<"S", "c", "a", "l", "e">>), Str(<<"S", "C", "A", "L", "E">>), Str(<<"s", "c", "a", "l", "e", "s">>),
     Str(<<"l", "o", "c", "a", "l", "S", "c", "a", "l", "e">>), Str(<<"p", "o", "s", "i", "t", "i", "o", "n">>), Str(<<"e", "u", "l", "e", "r", "A", "n", "g", "l", "e", "s">>), Str(<<"m", "a", "s", "s">>)}
PropertyValues ==
    {Str(<<"1", ",", "2", ",", "3">>), Str(<<"(", "1", "0", ",", " ", "1", ",", " ", "1", "0", ")">>), Str(<<"b", "i", "g">>),
     List(<<1, 2, 3>>), List(<<4, 5>>), List(<<1, 2, 3, 4>>), Num(5)}
FolderPaths == {NoneValue, Str(<<"A", "s", "s", "e", "t", "s">>)}
ComponentNames == {Str(<<"M", "e", "s", "h", "F", "i", "l", "t", "e", "r">>), Str(<<"R", "i", "g", "i", "d", "b", "o", "d", "y">>)}

(***************************************************************************)
(* State.  pc is the place the current call is at: idle between calls, the *)
(* _send_request it is blocked in, or done; a call made with a             *)
(* mesh type name is blocked in its first (mesh_filter), its second        *)
(* (mesh_renderer) or its last request (send_request).  sent and replies   *)
(* record the envelopes the call has posted and the answers it has got.    *)
(***************************************************************************)
VARIABLES pc, call, sent, replies, result, formatted_value

vars == <<pc, call, sent, replies, result, formatted_value>>

NoCall == [op |-> "", args |-> <<>>]

Init ==
    /\ pc = "idle"
    /\ call = NoCall
    /\ sent = <<>>
    /\ replies = <<>>
    /\ result = NoResult
    /\ formatted_value = NoneValue

\* the client is synchronous: a call starts when no call is in progress
CanCall == pc = "idle"

\* a method that builds one payload and returns self._send_request(payload)
Post(op, args, payload) ==
    /\ CanCall
    /\ pc' = "send_request"
    /\ call' = [op |-> op, args |-> args]
    /\ sent' = <<payload>>
    /\ replies' = <<>>
    /\ result' = NoResult

CreateGameObject ==
    \E n \in GameObjectNames, p \in ParentNames :
        /\ Post("create_gameobject", <<n, p>>, CreateGameObjectPayload(n, p))
        /\ UNCHANGED formatted_value

GetAllScenes ==
    /\ Post("get_all_scenes", <<>>, NoParametersPayload("get_all_scenes"))
    /\ UNCHANGED formatted_value

GetAllPrefabs ==
    /\ Post("get_all_prefabs", <<>>, NoParametersPayload("get_all_prefabs"))
    /\ UNCHANGED formatted_value

GetAllGameObjectsInScene ==
    /\ Post("get_all_gameobjects_in_scene", <<>>,
            NoParametersPayload("get_all_gameobjects_in_scene"))
    /\ UNCHANGED formatted_value

\* add_component_to_gameobject up to its first _send_request
AddComponentToGameObject ==
    \E g \in GameObjectNames, c \in ComponentTypeNames :
        /\ CanCall
        /\ call' = [op |-> "add_component_to_gameobject", args |-> <<g, c>>]
        /\ replies' = <<>>
        /\ result' = NoResult
        /\ IF IsMeshType(c)
           THEN /\ sent' = <<AddComponentPayload(g, Str(MeshFilterName))>>
                /\ pc' = "mesh_filter"
           ELSE /\ sent' = <<AddComponentPayload(g, c)>>
                /\ pc' = "send_request"
        /\ UNCHANGED formatted_value

CreateScriptAsset ==
    \E f \in FolderPaths :
        /\ Post("create_script_asset", <<Str(<<"S", "p", "i", "n">>), Str(<<"c", "l", "a", "s", "s", " ", "S", "p", "i", "n", " ", "{", "}">>), f>>,
                CreateScriptAssetPayload(Str(<<"S", "p", "i", "n">>), Str(<<"c", "l", "a", "s", "s", " ", "S", "p", "i", "n", " ", "{", "}">>), f))
        /\ UNCHANGED formatted_value

SetComponentProperty ==
    \E g \in GameObjectNames, c \in ComponentTypes, p \in PropertyNames,
       v \in PropertyValues :
        /\ Post("set_component_property", <<g, c, p, v>>,
                SetComponentPropertyPayload(g, c, p, v))
        /\ formatted_value' = FormattedValue(c, AliasPropertyName(c, p), v)

InstantiatePrefab ==
    /\ Post("instantiate_prefab", <<Str(<<"P">>)>>, InstantiatePrefabPayload(Str(<<"P">>)))
    /\ UNCHANGED formatted_value

FindGameObjectsByTag ==
    /\ Post("find_gameobjects_by_tag", <<Str(<<"T">>)>>,
            FindGameObjectsByTagPayload(Str(<<"T">>)))
    /\ UNCHANGED formatted_value

GetAllComponents ==
    \E g \in GameObjectNames :
        /\ Post("get_all_components", <<g>>, GetAllComponentsPayload(g))
        /\ UNCHANGED formatted_value

RemoveComponent ==
    \E g \in GameObjectNames, c \in ComponentNames :
        /\ Post("remove_component", <<g, c>>, RemoveComponentPayload(g, c))
        /\ UNCHANGED formatted_value

DeleteGameObject ==
    \E g \in GameObjectNames :
        /\ Post("delete_gameobject", <<g>>, DeleteGameObjectPayload(g))
        /\ UNCHANGED formatted_value

\* the call ends with r: a value returned or an exception raised
Finish(r) ==
    /\ result' = r
    /\ pc' = "done"
    /\ UNCHANGED sent

\* the request a method returns the result of is answered
SendRequestReturns ==
    /\ pc = "send_request"
    /\ \E reply \in Replies :
        /\ replies' = Append(replies, reply)
        /\ Finish(SendRequest(reply))
    /\ UNCHANGED <<call, formatted_value>>

\* the MeshFilter request is answered: return, raise, or post the second
MeshFilterAnswered ==
    /\ pc = "mesh_filter"
    /\ \E reply \in Replies :
        /\ replies' = Append(replies, reply)
        /\ IF AfterMeshStep(SendRequest(reply)) # NoResult
           THEN Finish(AfterMeshStep(SendRequest(reply)))
           ELSE /\ sent' = Append(sent, AddComponentPayload(call.args[1],
                                                            Str(MeshRendererName)))
                /\ pc' = "mesh_renderer"
                /\ UNCHANGED result
    /\ UNCHANGED <<call, formatted_value>>

\* the MeshRenderer request is answered: return, raise, or set the mesh
MeshRendererAnswered ==
    /\ pc = "mesh_renderer"
    /\ \E reply \in Replies :
        /\ replies' = Append(replies, reply)
        /\ IF AfterMeshStep(SendRequest(reply)) # NoResult
           THEN /\ Finish(AfterMeshStep(SendRequest(reply)))
                /\ UNCHANGED formatted_value
           ELSE /\ sent' = Append(sent, MeshPropertyPayload(call.args[1],
                                                            call.args[2]))
                /\ formatted_value' =
                       FormattedValue(Str(MeshFilterName), Str(MeshPropertyName),
                                      MeshAssetRef(call.args[2]))
                /\ pc' = "send_request"
                /\ UNCHANGED result
    /\ UNCHANGED call

\* the caller has the call's result; nothing of the call outlives it
CallerResumes ==
    /\ pc = "done"
    /\ pc' = "idle"
    /\ call' = NoCall
    /\ sent' = <<>>
    /\ replies' = <<>>
    /\ result' = NoResult
    /\ formatted_value' = NoneValue

Next ==
    \/ CreateGameObject
    \/ GetAllScenes
    \/ GetAllPrefabs
    \/ GetAllGameObjectsInScene
    \/ AddComponentToGameObject
    \/ CreateScriptAsset
    \/ SetComponentProperty
    \/ InstantiatePrefab
    \/ FindGameObjectsByTag
    \/ GetAllComponents
    \/ RemoveComponent
    \/ DeleteGameObject
    \/ SendRequestReturns
    \/ MeshFilterAnswered
    \/ MeshRendererAnswered
    \/ CallerResumes

Spec == Init /\ [][Next]_vars

(***************************************************************************)
(* _format_vector3 on its own: every string of at most MaxLen characters   *)
(* of VectorAlphabet is formatted once.                                    *)
(***************************************************************************)
MaxLen == 7
VectorAlphabet == {"1", "2", ",", ".", "-", " ", "\n"}
VectorStrings == UNION {[1..n -> VectorAlphabet] : n \in 0..MaxLen}

InitFormat ==
    /\ pc = "format"
    /\ \E s \in VectorStrings : call = [op |-> "_format_vector3", args |-> <<Str(s)>>]
    /\ sent = <<>>
    /\ replies = <<>>
    /\ result = NoResult
    /\ formatted_value = NoneValue

FormatVector3Returns ==
    /\ pc = "format"
    /\ formatted_value' = FormatVector3(call.args[1])
    /\ pc' = "done"
    /\ UNCHANGED <<call, sent, replies, result>>

SpecFormat == InitFormat /\ [][FormatVector3Returns]_vars

(***************************************************************************)
(* The terms the properties below are stated in, written from the          *)
(* statements and not from the methods they are checked against.           *)
(***************************************************************************)
Done == pc = "done"

\* the component type name ends with the literal suffix "Mesh"
NameEndsInMesh(name) ==
    /\ Len(name.s) >= 4
    /\ name.s[Len(name.s) - 3] = "M"
    /\ name.s[Len(name.s) - 2] = "e"
    /\ name.s[Len(name.s) - 1] = "s"
    /\ name.s[Len(name.s)] = "h"

\* the current call is the composite mesh operation
MeshCall ==
    /\ call.op = "add_component_to_gameobject"
    /\ NameEndsInMesh(call.args[2])

\* what the k-th request of the current call gave the method that sent it
Response(k) == SendRequest(replies[k])

\* a response whose success indicator is truthy
TruthySuccess(r) ==
    /\ r.outcome = "return"
    /\ r.value.kind = "dict"
    /\ \E f \in r.value.fields :
        f[1] = "success" /\ f[2] \notin {"false", "0", "null", "\"\"", "[]", "{}"}

\* a response whose success indicator is falsy or missing
FalsySuccess(r) == r.outcome = "return" /\ ~TruthySuccess(r)

Is2xx(status) == 200 <= status /\ status <= 299

\* an add_component envelope for component type name on gameobject g
IsAddComponent(envelope, g, name) ==
    /\ envelope.command = "add_component"
    /\ DOMAIN envelope.parameters = {"gameObjectName", "componentTypeName"}
    /\ envelope.parameters.gameObjectName = g
    /\ envelope.parameters.componentTypeName = Str(name)

\* T minus its "Mesh" suffix, lowercased
PrimitiveName(name) ==
    [i \in 1..(Len(name.s) - 4) |-> LowerChar(name.s[i])]

\* the set_component_property envelope that sets MeshFilter.mesh on g to a
\* string ending in "UnityEngine." followed by the primitive's name
IsSetMesh(envelope, g, name) ==
    /\ envelope.command = "set_component_property"
    /\ DOMAIN envelope.parameters =
           {"gameObjectName", "componentType", "propertyName", "value"}
    /\ envelope.parameters.gameObjectName = g
    /\ envelope.parameters.componentType = Str(<<"M", "e", "s", "h", "F", "i", "l", "t", "e", "r">>)
    /\ envelope.parameters.propertyName = Str(<<"m", "e", "s", "h">>)
    /\ envelope.parameters.value.t = "str"
    /\ EndsWith(envelope.parameters.value.s, <<"U", "n", "i", "t", "y", "E", "n", "g", "i", "n", "e", ".">> \o PrimitiveName(name))

\* the i-th request of the mesh sequence for the current call
IsMeshStep(i, envelope) ==
    CASE i = 1 -> IsAddComponent(envelope, call.args[1], <<"M", "e", "s", "h", "F", "i", "l", "t", "e", "r">>)
      [] i = 2 -> IsAddComponent(envelope, call.args[1], <<"M", "e", "s", "h", "R", "e", "n", "d", "e", "r", "e", "r">>)
      [] i = 3 -> IsSetMesh(envelope, call.args[1], call.args[2])
      [] OTHER -> FALSE

(***************************************************************************)
(* C1: a call add_component_to_gameobject(g, T) with T ending in "Mesh"    *)
(* posts, in this order, add_component MeshFilter on g, add_component      *)
(* MeshRenderer on g, and set_component_property MeshFilter.mesh on g with *)
(* a value ending in "UnityEngine." and T without "Mesh", lowercased: what *)
(* it has posted so far is always a prefix of that sequence, it is all of  *)
(* it once the call has ended with every response's success indicator      *)
(* truthy, and no add_component carrying T itself is ever posted.          *)
(***************************************************************************)
C1_MeshSequence ==
    MeshCall =>
        /\ Len(sent) <= 3
        /\ \A i \in 1..Len(sent) : IsMeshStep(i, sent[i])
        /\ \A i \in 1..Len(sent) :
               ~(/\ sent[i].command = "add_component"
                 /\ sent[i].parameters.componentTypeName = call.args[2])
        /\ (Done /\ \A k \in 1..Len(replies) : TruthySuccess(Response(k)))
               => Len(sent) = 3
        /\ (Len(sent) = 3 /\ call.args[2] = Str(<<"C", "u", "b", "e", "M", "e", "s", "h">>))
               => EndsWith(sent[3].parameters.value.s, <<"U", "n", "i", "t", "y", "E", "n", "g", "i", "n", "e", ".", "c", "u", "b", "e">>)

C1_Witness ==
    /\ Done
    /\ MeshCall
    /\ call.args[2] = Str(<<"C", "u", "b", "e", "M", "e", "s", "h">>)
    /\ Len(replies) = 3
    /\ \A k \in 1..3 : TruthySuccess(Response(k))
    /\ Len(sent) = 3
    /\ result.outcome = "return"

(***************************************************************************)
(* C2: in the composite mesh operation, when the response to the           *)
(* MeshFilter or to the MeshRenderer request has a falsy or missing        *)
(* success indicator, the call has ended there: no later request was       *)
(* posted, and that response is what the call returned, unchanged.         *)
(***************************************************************************)
C2_ShortCircuit ==
    MeshCall =>
        \A k \in 1..Len(replies) :
            (k <= 2 /\ FalsySuccess(Response(k))) =>
                /\ Done
                /\ Len(replies) = k
                /\ Len(sent) = k
                /\ result.outcome = "return"
                /\ result.value = Response(k).value
                /\ result.exc = NoException

(***************************************************************************)
(* C3: a call posts one request when it starts and one more only after an  *)
(* answer; once it has ended it has made exactly one round trip, unless it *)
(* is add_component_to_gameobject with a type name ending in "Mesh", which *)
(* has made at least one and at most three.                                *)
(***************************************************************************)
C3_RoundTrips ==
    /\ (pc \notin {"idle", "done"}) => Len(sent) = Len(replies) + 1
    /\ Done =>
        /\ Len(sent) = Len(replies)
        /\ IF MeshCall THEN Len(sent) \in 1..3 ELSE Len(sent) = 1

C3_Witness ==
    /\ Done
    /\ MeshCall
    /\ call.args[2] = Str(<<"S", "p", "h", "e", "r", "e", "M", "e", "s", "h">>)
    /\ Len(sent) = 3
    /\ Len(replies) = 3
    /\ replies[3].status = 500
    /\ result.outcome = "raise"

\* the cases of C4: the transport fails, the status is not 2xx, or the
\* status is 2xx and the body is not empty and not JSON
HardFailure(reply) ==
    \/ reply.transport # "ok"
    \/ ~Is2xx(reply.status)
    \/ (reply.body # "" /\ ~JsonLoads(reply.body).ok)

(***************************************************************************)
(* C4: whenever the transport fails, or the HTTP status is not 2xx         *)
(* whatever the body, or the status is 2xx and the non-empty body is not   *)
(* JSON, the call raises the uniform failure, its message contains the     *)
(* cause's text, and no response value is returned.                        *)
(***************************************************************************)
C4_HardFailureRaises ==
    \A k \in 1..Len(replies) :
        HardFailure(replies[k]) =>
            /\ Done
            /\ Len(replies) = k
            /\ result.outcome = "raise"
            /\ result.exc.type = "RuntimeError"
            /\ \E i \in 1..Len(result.exc.msg) :
                   result.exc.msg[i] = CauseText(replies[k])
            /\ result.value = NoJson

(***************************************************************************)
(* C5: every call, whatever the server answers, ends by returning a        *)
(* decoded response or by raising the one uniform failure kind.            *)
(***************************************************************************)
C5_OneFailureKind ==
    Done =>
        \/ result.outcome = "return"
        \/ result.outcome = "raise" /\ result.exc.type = "RuntimeError"

\* a 2xx answer with an empty body
Empty2xx(reply) ==
    reply.transport = "ok" /\ Is2xx(reply.status) /\ reply.body = ""

(***************************************************************************)
(* C6: a 2xx answer with an empty body makes the request return the empty  *)
(* mapping and raises nothing; in the composite mesh operation such an     *)
(* answer to the MeshFilter or the MeshRenderer request ends the call,     *)
(* which returns the empty mapping and posts no later request.             *)
(***************************************************************************)
C6_EmptyBody ==
    \A k \in 1..Len(replies) :
        Empty2xx(replies[k]) =>
            /\ Response(k) = Returned(JsonDict({}))
            /\ Done
            /\ Len(replies) = k
            /\ Len(sent) = k
            /\ result.outcome = "return"
            /\ result.value = [kind |-> "dict", fields |-> {}, lit |-> ""]
            /\ result.exc = NoException

C6_Witness ==
    /\ Done
    /\ MeshCall
    /\ Len(replies) = 2
    /\ Empty2xx(replies[2])
    /\ Len(sent) = 2
    /\ result.value = [kind |-> "dict", fields |-> {}, lit |-> ""]

\* the property name equals "scale" when case is ignored
IsScaleIgnoringCase(name) ==
    /\ Len(name.s) = 5
    /\ name.s[1] \in {"s", "S"}
    /\ name.s[2] \in {"c", "C"}
    /\ name.s[3] \in {"a", "A"}
    /\ name.s[4] \in {"l", "L"}
    /\ name.s[5] \in {"e", "E"}

(***************************************************************************)
(* C7: set_component_property(g, "Transform", p, v) with p equal to        *)
(* "scale" when case is ignored posts propertyName "localScale" and the    *)
(* Vector3 coercion of v as the value; with any other component type or    *)
(* property name, propertyName is posted as supplied.                      *)
(***************************************************************************)
C7_ScaleAlias ==
    (call.op = "set_component_property" /\ Len(sent) = 1) =>
        IF call.args[2] = Str(<<"T", "r", "a", "n", "s", "f", "o", "r", "m">>) /\ IsScaleIgnoringCase(call.args[3])
        THEN /\ sent[1].parameters.propertyName = Str(<<"l", "o", "c", "a", "l", "S", "c", "a", "l", "e">>)
             /\ sent[1].parameters.value = FormatVector3(call.args[4])
        ELSE sent[1].parameters.propertyName = call.args[3]

C7_Witness ==
    /\ call.op = "set_component_property"
    /\ call.args[2] = Str(<<"T", "r", "a", "n", "s", "f", "o", "r", "m">>)
    /\ call.args[3] = Str(<<"S", "C", "A", "L", "E">>)
    /\ call.args[4] = Str(<<"(", "1", "0", ",", " ", "1", ",", " ", "1", "0", ")">>)
    /\ Len(sent) = 1
    /\ sent[1].parameters.propertyName = Str(<<"l", "o", "c", "a", "l", "S", "c", "a", "l", "e">>)
    /\ sent[1].parameters.value = Str(<<"1", "0", ",", "1", ",", "1", "0">>)

\* the strict form: exactly number,number,number and nothing else, each
\* number an optional minus, digits, an optional point, digits
StrictVector3Form(s) ==
    LET c1 == CommaEnd(s, LooseNumberEnd(s, 1))
        c2 == IF c1 = 0 THEN 0 ELSE CommaEnd(s, LooseNumberEnd(s, c1))
    IN  c2 > 0 /\ LooseNumberEnd(s, c2) = Len(s) + 1

(***************************************************************************)
(* C8: for a string with at least three numeric substrings that is not in  *)
(* the strict number,number,number form, Vector3 coercion returns the      *)
(* first three numeric substrings, in order, joined by commas and nothing  *)
(* else; a string with fewer than three is returned as it is.              *)
(***************************************************************************)
C8_Vector3Extraction ==
    (Done /\ call.op = "_format_vector3") =>
        LET s == call.args[1].s
            numbers == FindAllNumbers(s)
        IN  /\ (Len(numbers) >= 3 /\ ~StrictVector3Form(s)) =>
                   formatted_value =
                       Str(numbers[1] \o <<",">> \o numbers[2] \o <<",">> \o numbers[3])
            /\ Len(numbers) < 3 => formatted_value = Str(s)

(***************************************************************************)
(* C9: a call that returns normally returns the decoded response of the    *)
(* last request it posted, unchanged; the one value made locally is the    *)
(* empty mapping, returned for an empty 2xx body.                          *)
(***************************************************************************)
C9_PassThrough ==
    (Done /\ result.outcome = "return") =>
        LET last == replies[Len(replies)]
        IN  /\ Len(sent) = Len(replies)
            /\ IF last.body = ""
               THEN /\ Is2xx(last.status)
                    /\ result.value = [kind |-> "dict", fields |-> {}, lit |-> ""]
               ELSE /\ JsonLoads(last.body).ok
                    /\ result.value = JsonLoads(last.body).value

(***************************************************************************)
(* C10: no request is posted twice and none is posted to undo another: a   *)
(* request that fails with the uniform failure is the call's last, and the *)
(* failure is what the call raises; the composite mesh operation never     *)
(* posts remove_component, and when its MeshFilter step succeeded and its  *)
(* MeshRenderer step fails, by a raised failure or a success indicator     *)
(* that is not truthy, its two add_component requests are all it posted.   *)
(***************************************************************************)
C10_NoRetryNoRollback ==
    /\ \A k \in 1..Len(replies) :
           Response(k).outcome = "raise" =>
               /\ Done
               /\ Len(replies) = k
               /\ Len(sent) = k
               /\ result = Response(k)
    /\ \A i, j \in 1..Len(sent) : i < j => sent[i] # sent[j]
    /\ MeshCall =>
        /\ \A i \in 1..Len(sent) : sent[i].command # "remove_component"
        /\ (/\ Len(replies) >= 2
            /\ TruthySuccess(Response(1))
            /\ ~TruthySuccess(Response(2))) =>
               /\ Done
               /\ Len(sent) = 2
               /\ IsMeshStep(1, sent[1])
               /\ IsMeshStep(2, sent[2])

C10_Witness ==
    /\ Done
    /\ MeshCall
    /\ Len(replies) = 2
    /\ TruthySuccess(Response(1))
    /\ replies[2].transport = "Timeout"
    /\ result.outcome = "raise"
    /\ Len(sent) = 2
====
